---------------------------- MODULE Spec2Model ----------------------------
(***************************************************************************)
(* Rate-limit gates, bucket registry, request executor and reaper of the   *)
(* Nexon HTTP client (src/http.py).                                        *)
(*                                                                         *)
(* Time is counted in whole seconds.  A RateLimit object is a record; the  *)
(* objects live in the arena rl (a sequence, an object's identity is its   *)
(* index) because the client's maps alias them.  Every coroutine runs      *)
(* without interruption between two awaits that really suspend, so one     *)
(* action is the code between two suspension points.                       *)
(***************************************************************************)
EXTENDS Integers, Sequences, FiniteSets, TLC

----------------------------------------------------------------------------
(* Bounds of the model *)

\* The clock stops advancing here.
MaxTime == 2
\* RateLimit objects the client may allocate.
MaxObjs == 4
\* request() calls in flight.
NumReq == 2
\* Transport calls the server answers or fails, over all requests, in the
\* broad environment and in the deep one.
MaxCalls == 3
DeepCalls == 5
\* The same two bounds where the reaper runs: the clock goes far enough for a
\* reset time to be older than the shed threshold.
SweepTime == 3
SweepCalls == 2
\* Transport calls where every status is answered, and where only server
\* errors are retried.
CodesCalls == 3
\* Transport calls where requests carry different credentials.
CredsCalls == 2
\* Transport calls of a client that gets closed.
ClosingCalls == 2
ScopesCalls == 3
\* DataManager instances alive at once, seconds of time.time(), and the values
\* written under the one key of a data dict.
NumManagers == 2
MaxClock == 3
MaxValue == 1
BackoffCalls == 4
\* One gate on its own: the coroutines that call acquire(), the calls of
\* acquire() and migrate_to() they make in all, and the largest
\* X-RateLimit-Limit the server reports.
NumCallers == 2
MaxOps == 4
MaxLimit == 2

----------------------------------------------------------------------------
(* Values *)

\* Python's None where a string is expected (bucket names, migrating).
None == "None"
\* Python's None where a number is expected (reset, header values, tasks).
NoVal == -1
\* for retry_count in range(max_retry_count)
max_retry_count == 5
\* HTTPClient(max_global_requests=...): small, so that the global gate locks.
max_global_requests == 2
\* HTTPClient(time_offset=...)
time_offset == 0
\* HTTPClient(ratelimit_shed_threshold=...), in seconds.
ratelimit_shed_threshold == 1

BucketNames == {"a", "b"}
Routes == {"r1", "r2"}
\* utils.MISSING, the default of request()'s auth parameter; also stands for
\* "no Authorization entry in the headers given".
MISSING == "MISSING"
Auths == {None, "Bot A"}
Requests == 1..NumReq
Callers == 1..NumCallers

----------------------------------------------------------------------------
(* A response as the code reads it: status and the consumed headers.       *)
(*   xglobal      X-RateLimit-Global == "true"                             *)
(*   xscope       X-RateLimit-Scope == "global"                            *)
(*   bucket       X-RateLimit-Bucket, None when absent                     *)
(*   limit, remaining, reset, reset_after, hdr_retry_after: NoVal if absent*)
(*   retry_after  the JSON body's retry_after, NoVal when absent           *)
(*   via          a Via header is present                                  *)
(*   json         content-type is application/json                         *)
Resp(status, xglobal, bucket, remaining) ==
    [status |-> status, xglobal |-> xglobal, xscope |-> FALSE,
     bucket |-> bucket, limit |-> NoVal, remaining |-> remaining,
     reset |-> NoVal, reset_after |-> NoVal, retry_after |-> NoVal,
     hdr_retry_after |-> NoVal, via |-> TRUE, json |-> TRUE]

----------------------------------------------------------------------------
(* RateLimit *)

\* RateLimit.__init__
NewRateLimit(use_reset_timestamp) ==
    [kind |-> "route", limit |-> 1, remaining |-> 1, reset |-> NoVal,
     tracked |-> 1, reset_after |-> 1 + time_offset, bucket |-> None,
     first_update |-> TRUE, task |-> NoVal, ready |-> TRUE,
     migrating |-> None, use_ts |-> use_reset_timestamp, woke |-> FALSE,
     live |-> 0, superseded |-> FALSE]

\* RateLimit.resetting: a reset task exists and is not done.  task holds the
\* time at which the task's sleep ends.
resetting(b) == b.task # NoVal

\* A gate that counts as locked only below zero.
locked_BelowZero(b) == b.remaining < 0

\* RateLimit.locked
locked(b) == b.remaining <= 0

\* asyncio.Event.set(): wakes the waiters only when the flag was clear.
EventSet(b) == IF b.ready THEN b ELSE [b EXCEPT !.ready = TRUE, !.woke = TRUE]

\* A cancel() that stops nothing.
CancelTask_Forgets(b) == [b EXCEPT !.superseded = TRUE]

\* self._reset_remaining_task.cancel() on a task that is not done: the task
\* never gets to its refill.  live counts the reset tasks of the bucket that
\* are neither done nor cancelled; superseded records that the task now
\* running took the place of one that was cancelled.
CancelTask(b) ==
    [b EXCEPT !.task = NoVal, !.live = b.live - 1, !.superseded = TRUE]

\* RateLimit.start_reset_task: replaces the running task, if any, by one that
\* sleeps seconds_until_reset.  _reset_ignore_threshold is 0.02 s: in whole
\* seconds reset_delta < 0.02 is reset_delta <= 0.
start_reset_task(b, now) ==
    LET b0 == IF resetting(b) THEN CancelTask(b)
              ELSE [b EXCEPT !.superseded = FALSE]
        reset_delta == b.reset - now
        seconds_until_reset ==
            IF b.use_ts
            THEN IF b.reset # NoVal
                 THEN IF reset_delta <= 0 THEN b.tracked ELSE reset_delta
                 ELSE b.tracked
            ELSE b.tracked
    IN  [b0 EXCEPT !.task = now + seconds_until_reset, !.live = b0.live + 1]

\* RateLimit.reset_remaining after its sleep: refill and reopen; the task ends.
reset_remaining(b) ==
    EventSet([b EXCEPT !.remaining = b.limit, !.task = NoVal,
                       !.live = b.live - 1, !.superseded = FALSE])

\* A migrate_to that leaves remaining alone.
migrate_to_KeepsCount(b, bucket) == EventSet([b EXCEPT !.migrating = bucket])

\* RateLimit.migrate_to
migrate_to(b, bucket) ==
    EventSet([b EXCEPT !.migrating = bucket, !.remaining = b.limit])

Min(x, y) == IF x < y THEN x ELSE y
Max(x, y) == IF x > y THEN x ELSE y

\* RateLimit.update, the part that sets limit and remaining (lines 226-243).
UpdateCounts(b, response) ==
    [b EXCEPT
       !.limit = IF response.limit = NoVal THEN 1 ELSE response.limit,
       !.remaining = IF response.remaining = NoVal THEN 1
                     ELSE IF b.first_update THEN response.remaining
                     ELSE Min(response.remaining, b.remaining)]

\* An update that takes the last gap between reset times as the estimate.
UpdateReset_LastGap(b, response, now) ==
    IF response.reset = NoVal THEN b
    ELSE LET x_reset == response.reset + time_offset
             b1 == IF b.use_ts /\ b.reset # NoVal
                   THEN [b EXCEPT !.tracked = x_reset - b.reset]
                   ELSE b
         IN  IF b1.reset = NoVal \/ b1.reset < x_reset
             THEN [b1 EXCEPT !.reset = x_reset]
             ELSE b1

\* RateLimit.update, the part that reads X-RateLimit-Reset (lines 245-261).
UpdateReset(b, response, now) ==
    IF response.reset = NoVal THEN b
    ELSE LET x_reset == response.reset + time_offset
             b1 == IF b.use_ts /\ b.reset # NoVal
                   THEN [b EXCEPT !.tracked = Max(b.tracked, x_reset - b.reset)]
                   ELSE b
         IN  IF b1.reset = NoVal \/ b1.reset < x_reset
             THEN LET b2 == [b1 EXCEPT !.reset = x_reset]
                  IN  IF b2.use_ts THEN start_reset_task(b2, now) ELSE b2
             ELSE b1

\* An update that does not read X-RateLimit-Reset-After.
UpdateResetAfter_Ignored(b, response, now) == b

\* RateLimit.update, the part that reads X-RateLimit-Reset-After (263-276).
UpdateResetAfter(b, response, now) ==
    IF response.reset_after = NoVal THEN b
    ELSE LET x_reset_after == response.reset_after + time_offset
             b1 == [b EXCEPT !.reset_after = x_reset_after]
         IN  IF ~b1.use_ts /\ b1.tracked < x_reset_after
             THEN start_reset_task([b1 EXCEPT !.tracked = x_reset_after], now)
             ELSE b1

\* RateLimit.update, its end (lines 278-292).
UpdateTail(b, now) ==
    LET b1 == IF ~resetting(b) THEN start_reset_task(b, now) ELSE b
        b2 == IF b1.remaining > 0 /\ ~b1.ready THEN EventSet(b1) ELSE b1
    IN  [b2 EXCEPT !.first_update = FALSE]

\* An update that takes whatever bucket name the response carries.
RateLimitUpdate_Renames(b, response, now) ==
    IF response.xglobal THEN [ok |-> TRUE, b |-> b]
    ELSE [ok |-> TRUE,
          b |-> UpdateTail(UpdateCounts([b EXCEPT !.bucket = response.bucket],
                                        response), now)]

\* RateLimit.update.  ok = FALSE: IncorrectBucket was raised, nothing changed.
RateLimitUpdate(b, response, now) ==
    IF response.xglobal THEN [ok |-> TRUE, b |-> b]
    ELSE IF b.bucket # response.bucket /\ b.bucket # None
         THEN [ok |-> FALSE, b |-> b]
    ELSE LET b1 == [b EXCEPT !.bucket = response.bucket]
             b2 == UpdateCounts(b1, response)
             b3 == UpdateReset(b2, response, now)
             b4 == UpdateResetAfter(b3, response, now)
         IN  [ok |-> TRUE, b |-> UpdateTail(b4, now)]

\* An acquire() that never closes the event of a locked bucket.
LockIfHit_Never(b, now) == b

\* An acquire() that closes the event of a locked bucket and starts no task.
LockIfHit_NoTask(b, now) ==
    IF locked(b) /\ b.ready THEN [b EXCEPT !.ready = FALSE] ELSE b

\* RateLimit.acquire, lines 375-383 and 390-398: a locked bucket whose event is
\* set clears it and makes sure a reset task runs.
LockIfHit(b, now) ==
    IF locked(b) /\ b.ready
    THEN LET b1 == [b EXCEPT !.ready = FALSE]
         IN  IF ~resetting(b1) THEN start_reset_task(b1, now) ELSE b1
    ELSE b

\* An acquire() that does not look at migrating.
AcquireTake_Unaware(b) ==
    [raised |-> FALSE, b |-> [b EXCEPT !.remaining = b.remaining - 1]]

\* An acquire() that takes no permit.
AcquireTake_Free(b) == [raised |-> b.migrating # None, b |-> b]

\* RateLimit.acquire, lines 400-407, reached with the event set.
\* raised = TRUE: RateLimitMigrating.
AcquireTake(b) ==
    IF b.migrating # None THEN [raised |-> TRUE, b |-> b]
    ELSE [raised |-> FALSE, b |-> [b EXCEPT !.remaining = b.remaining - 1]]

\* A release() that gives the permit back.
release_Refund(b) == [b EXCEPT !.remaining = b.remaining + 1]

\* RateLimit.release, what __aexit__ calls: a placeholder.
release(b) == b

----------------------------------------------------------------------------
(* GlobalRateLimit *)

\* HTTPClient._make_global_rate_limit
NewGlobalRateLimit(max_per_second) ==
    [NewRateLimit(FALSE) EXCEPT !.kind = "global", !.limit = max_per_second,
       !.remaining = max_per_second, !.reset_after = 1 + time_offset,
       !.bucket = "Global"]

\* GlobalRateLimit.acquire, after super().acquire() returned.
GlobalAfterAcquire(b, now) ==
    IF ~resetting(b) THEN start_reset_task(b, now) ELSE b

\* GlobalRateLimit.update looks at the response at all.
IsGlobalScoped(response) == response.xglobal \/ response.xscope

\* A global 429 that hands the permits back.
GlobalUpdateHead_Refills(b, response) ==
    IF IsGlobalScoped(response) /\ response.status = 429
    THEN [b EXCEPT !.remaining = b.limit]
    ELSE b

\* GlobalRateLimit.update up to its await of response.json() (lines 433-444).
GlobalUpdateHead(b, response) ==
    IF IsGlobalScoped(response) /\ response.status = 429
    THEN [b EXCEPT !.remaining = 0]
    ELSE b

\* GlobalRateLimit.update after response.json() returned (lines 446-460).
\* The body's retry_after counts when truthy (not 0); the Retry-After header,
\* a string, counts whenever it is present.
GlobalUpdateTail(b, response, now) ==
    LET retry_after == IF response.retry_after > 0 THEN response.retry_after
                       ELSE response.hdr_retry_after
        b1 == IF retry_after # NoVal
              THEN start_reset_task(
                     [b EXCEPT !.reset_after = retry_after + time_offset], now)
              ELSE b
        b2 == [b1 EXCEPT !.ready = FALSE]
    IN  IF ~resetting(b2) THEN start_reset_task(b2, now) ELSE b2

----------------------------------------------------------------------------
(* HTTPClient: state *)

VARIABLES
    rl,                 \* the RateLimit objects ever created, by identity
    buckets,            \* HTTPClient._buckets: bucket name -> object (0: absent)
    url_rate_limits,    \* HTTPClient._url_rate_limits: (route, auth) -> object
    global_rate_limits, \* HTTPClient._global_rate_limits: auth -> object
    use_timestamp,      \* HTTPClient._ratelimit_use_timestamp
    life,               \* the transport session and _ratelimit_shed_task
    req,                \* the request() coroutines
    now,                \* the clock, in seconds
    env,                \* what the callers and the server do in this run
    swept,              \* history: _url_rate_limits as the sweep that just
                        \* ran found it (all 0 when the last step was none)
    gate,               \* one RateLimit object driven on its own
    callers,            \* the coroutines that call gate.acquire()
    ops,                \* calls of acquire() and migrate_to() made on gate
    files,              \* the JSON files on disk: path -> contents
    heap,               \* the dict objects DataManagers and the cache hold
    cache,              \* DataManager._cache: path -> dict object (0: absent)
    cache_timestamps,   \* DataManager._cache_timestamps: the (path, time)
                        \* items in the dict's insertion order
    managers,           \* the DataManager instances
    clock,              \* time.time()
    profile             \* what the users of DataManager do in this run

clientVars == <<rl, buckets, url_rate_limits, global_rate_limits,
                use_timestamp, life, req>>

gateVars == <<gate, callers, ops>>

dataVars == <<files, heap, cache, cache_timestamps, managers, clock, profile>>

Keys == Routes \X Auths

NoResp == Resp(0, FALSE, None, NoVal)

\* The locals of one request() call.
\*   pc           where the coroutine is suspended
\*   given, auth  the Authorization entry of the headers given and the auth
\*                argument; the Authorization value _make_headers resolves
\*   glob, url    global_rate_limit, url_rate_limit (object identities)
\*   woken        the Event.wait() future it sleeps on was resolved
\*   status, resp_no   response.status and which transport call produced
\*                response (0: response is None)
\*   ret          the transport call whose parsed body ret holds (0: None)
\*   pending      the response GlobalRateLimit.update is suspended on
\*   sleep        seconds of the asyncio.sleep it is in
\*   calls, redirs, gdec   history: transport calls made, loop iterations
\*                ended by a redirect, decrements of the global bucket
\*   outcome      how the call ended
NoOutcome == [kind |-> "none", err |-> None, resp_no |-> 0, status |-> 0]

IdleReq ==
    [pc |-> "idle", route |-> "r1", auth |-> None, given |-> <<MISSING, None>>,
     retry_request |-> TRUE,
     retry_count |-> 0, glob |-> 0, url |-> 0, woken |-> FALSE,
     status |-> 0, resp_no |-> 0, ret |-> 0, pending |-> NoResp, sleep |-> 0,
     calls |-> 0, redirs |-> 0, gdec |-> 0, outcome |-> NoOutcome]

\* The client's shared state as one value, so that the steps of a coroutine
\* compose.
World == [rl |-> rl, buckets |-> buckets, urls |-> url_rate_limits,
          globals |-> global_rate_limits, use_ts |-> use_timestamp,
          life |-> life]

SetRL(W, i, b) == [W EXCEPT !.rl[i] = b]
Key(q) == <<q.route, q.auth>>
St(W, q) == [W |-> W, q |-> q]

----------------------------------------------------------------------------
(* HTTPClient.request: the ways it ends *)

\* raise <err>(response, ret) or a bare raise: the coroutine is over.
Raise(W, q, err) ==
    St(W, [q EXCEPT !.pc = "done",
             !.outcome = [kind |-> "raise", err |-> err,
                          resp_no |-> q.resp_no, status |-> q.status]])

\* return ret (line 974, or after the break of line 959).  The outcome holds
\* which transport call's body is returned (0: None) and whether the loop's
\* last iteration had produced it (the break) or the loop ran out.
Return(W, q, how) ==
    St(W, [q EXCEPT !.pc = "done",
             !.outcome = [kind |-> how, err |-> None,
                          resp_no |-> q.ret, status |-> q.status]])

\* An exhausted loop that always raises HTTPException.
ExhaustedError_Untyped(q) == "HTTPException"

\* Lines 968-972: the typed error of an exhausted loop.
ExhaustedError(q) ==
    IF q.status >= 500 THEN "DiscordServerError" ELSE "HTTPException"

----------------------------------------------------------------------------
(* HTTPClient.request: one pass of the retry loop, up to its first await   *)
(* that suspends (a gate's event, or the transport call).                  *)

RECURSIVE LoopTop(_, _, _)

\* A redirect that starts the pass over without taking the next value of the
\* for statement.
NextIteration_SamePass(W, q, t) == LoopTop(W, q, t)

\* The for statement taking its next value, without an await in between:
\* reached by the continue of line 822 and from the end of the loop body.
NextIteration(W, q, t) ==
    IF q.retry_count + 1 < max_retry_count
    THEN LoopTop(W, [q EXCEPT !.retry_count = q.retry_count + 1], t)
    ELSE Return(W, q, "return_exhausted")

\* Lines 961-972, the end of the loop body, reached when no break was taken.
AfterTry(W, q, t) ==
    IF q.retry_count >= max_retry_count - 1 /\ q.resp_no # 0
    THEN Raise(W, q, ExhaustedError(q))
    ELSE NextIteration(W, q, t)

\* Lines 814-841: both gates are held.  A route key that now maps to another
\* object ends the pass (continue); otherwise the transport call is made.
AfterGates(W, q, t) ==
    LET temp == W.urls[Key(q)]
    IN  IF temp # q.url /\ temp # 0
        THEN NextIteration(W, [q EXCEPT !.url = temp,
                                        !.redirs = q.redirs + 1], t)
        ELSE St(W, [q EXCEPT !.pc = "transport", !.calls = q.calls + 1])

\* Lines 930-955: except RateLimitMigrating.
OnMigrating(W, q, t) ==
    LET old == W.rl[q.url]
        target == IF old.migrating = None THEN 0 ELSE W.buckets[old.migrating]
    IN  IF old.migrating = None \/ target = 0
        THEN Raise(W, q, "ValueError")
        ELSE AfterTry(W, [q EXCEPT !.url = target, !.redirs = q.redirs + 1], t)

\* url_rate_limit.acquire() from its loop test on (lines 386-407): the event
\* is clear and the coroutine waits, or it takes a permit, or is told to
\* migrate.
UrlAcquire(W, q, t) ==
    LET b0 == LockIfHit(W.rl[q.url], t)
        W0 == SetRL(W, q.url, b0)
        take == AcquireTake(b0)
    IN  IF ~b0.ready
        THEN St(W0, [q EXCEPT !.pc = "wait_url", !.woken = FALSE])
        ELSE IF take.raised THEN OnMigrating(W0, q, t)
        ELSE AfterGates(SetRL(W0, q.url, take.b), q, t)

\* global_rate_limit.acquire() (GlobalRateLimit.acquire over RateLimit.acquire),
\* then on to the route gate.
GlobalAcquire(W, q, t) ==
    LET b0 == LockIfHit(W.rl[q.glob], t)
        W0 == SetRL(W, q.glob, b0)
        take == AcquireTake(b0)
        b1 == GlobalAfterAcquire(take.b, t)
    IN  IF ~b0.ready
        THEN St(W0, [q EXCEPT !.pc = "wait_global", !.woken = FALSE])
        ELSE IF take.raised THEN OnMigrating(W0, q, t)
        ELSE UrlAcquire(SetRL(W0, q.glob, b1),
                        [q EXCEPT !.gdec = q.gdec + (b0.remaining - b1.remaining)],
                        t)

\* Line 809-812: the top of the loop body.
LoopTop(W, q, t) == GlobalAcquire(W, q, t)

----------------------------------------------------------------------------
(* HTTPClient.request: a response *)

\* A handler that retries every server error.
IsRetriedServerError_Any5xx(status) == status >= 500

\* Line 1014: the server errors that are retried.
IsRetriedServerError(status) == status \in {500, 502, 504}

\* A handler that sleeps one second before every retry.
Backoff_Flat(retry_count) == 1

\* Line 1020: the seconds slept before a server error is retried.
Backoff(retry_count) == 1 + retry_count * 2

\* A handler that takes a 429 for a ban only when it has neither a Via header
\* nor a JSON body.
IsEdgeBlock_Both(response) == ~response.via /\ ~response.json

\* Line 1063: a 429 without a Via header, or whose body json_or_text left as
\* text, is taken for a ban.
IsEdgeBlock(response) == ~response.via \/ ~response.json

\* HTTPClient._handle_http_response_errors and what the loop does with its
\* result (lines 957-972).  ret has just been set from this response.  A
\* retried pass first sleeps (500/502/504) or at least has awaited the body,
\* so the next pass starts in a later step.
Classify(W, q, response) ==
    LET retry(secs) ==
            IF q.retry_count >= max_retry_count - 1
            THEN Raise(W, q, ExhaustedError(q))
            ELSE St(W, [q EXCEPT !.pc = "sleep", !.sleep = secs,
                                 !.retry_count = q.retry_count + 1])
    IN  IF response.status < 400 THEN Return(W, q, "return")
        ELSE IF IsRetriedServerError(response.status)
             THEN IF q.retry_request THEN retry(Backoff(q.retry_count))
                  ELSE Raise(W, q, "DiscordServerError")
        ELSE IF response.status = 401 THEN Raise(W, q, "Unauthorized")
        ELSE IF response.status = 403 THEN Raise(W, q, "Forbidden")
        ELSE IF response.status = 404 THEN Raise(W, q, "NotFound")
        ELSE IF response.status = 429
             THEN IF IsEdgeBlock(response)
                  THEN Raise(W, q, "HTTPException")
                  ELSE IF q.retry_request THEN retry(0)
                  ELSE Raise(W, q, "HTTPException")
        ELSE IF response.status >= 500 THEN Raise(W, q, "DiscordServerError")
        ELSE Raise(W, q, "HTTPException")

\* A registry that forgets to re-point the route key.
set_url_rate_limit_Drops(W, q, i) == W

\* A registry that re-points the route key to the gate the request holds.
set_url_rate_limit_Stale(W, q, i) == [W EXCEPT !.urls[Key(q)] = q.url]

\* Lines 594-597: HTTPClient._set_url_rate_limit.
set_url_rate_limit(W, q, i) == [W EXCEPT !.urls[Key(q)] = i]

\* Lines 851-877: url_rate_limit.update(response) and its IncorrectBucket
\* handler.  Gives the world and the request's url_rate_limit afterwards;
\* err is the exception that escapes, None when none does.
UpdateUrl(W, q, response, t) ==
    LET first == RateLimitUpdate(W.rl[q.url], response, t)
        temp == IF response.bucket = None THEN 0 ELSE W.buckets[response.bucket]
        fresh == Len(W.rl) + 1
        again == RateLimitUpdate(
                    IF temp # 0 THEN W.rl[temp] ELSE NewRateLimit(W.use_ts),
                    response, t)
        err == IF again.ok THEN None ELSE "IncorrectBucket"
    IN  IF first.ok
        THEN [err |-> None, W |-> SetRL(W, q.url, first.b), url |-> q.url]
        ELSE IF temp # 0
        THEN [err |-> err,
              W |-> set_url_rate_limit(SetRL(W, temp, again.b), q, temp),
              url |-> temp]
        ELSE [err |-> err,
              W |-> [W EXCEPT !.rl = Append(W.rl, again.b),
                              !.urls[Key(q)] = fresh],
              url |-> fresh]

\* A registry where the gate of the last response takes the name.
Reconcile_Overwrites(W, q, url, response, t) ==
    LET name == W.rl[url].bucket
    IN  IF name = None THEN [err |-> None, W |-> W]
        ELSE [err |-> None, W |-> [W EXCEPT !.buckets[name] = url]]

\* Lines 879-905: the bucket name of url_rate_limit against _buckets.  The
\* local url_rate_limit keeps pointing at the stale object after a migration.
Reconcile(W, q, url, response, t) ==
    LET name == W.rl[url].bucket
        correct == W.buckets[name]
        W1 == set_url_rate_limit(W, q, correct)
        W2 == SetRL(W1, url, migrate_to(W1.rl[url], W1.rl[correct].bucket))
        upd == RateLimitUpdate(W2.rl[correct], response, t)
    IN  IF name = None THEN [err |-> None, W |-> W]
        ELSE IF correct # url /\ correct # 0
        THEN IF W1.rl[correct].bucket = None
             THEN [err |-> "ValueError", W |-> W1]
             ELSE [err |-> IF upd.ok THEN None ELSE "IncorrectBucket",
                   W |-> SetRL(W2, correct, upd.b)]
        ELSE [err |-> None, W |-> [W EXCEPT !.buckets[name] = url]]

\* Lines 851-919: from url_rate_limit.update(response) to the end of the pass.
ProcessResponse(W, q, response, t) ==
    LET u == UpdateUrl(W, q, response, t)
        rec == Reconcile(u.W, q, u.url, response, t)
        q1 == [q EXCEPT !.url = u.url]
    IN  IF u.err # None THEN Raise(u.W, q1, u.err)
        ELSE IF rec.err # None THEN Raise(rec.W, q1, rec.err)
        ELSE Classify(rec.W, [q1 EXCEPT !.ret = q.resp_no], response)

----------------------------------------------------------------------------
(* HTTPClient: the steps of the event loop *)

\* What an Event.set() of this step did to the coroutines waiting on it.
Wake(q, rls) ==
    IF \/ q.pc = "wait_global" /\ rls[q.glob].woke
       \/ q.pc = "wait_url" /\ rls[q.url].woke
    THEN [q EXCEPT !.woken = TRUE]
    ELSE q

Settle(rls) == [i \in DOMAIN rls |-> [rls[i] EXCEPT !.woke = FALSE]]

\* Transport calls made so far.
TotalCalls == LET RECURSIVE Sum(_)
                  Sum(n) == IF n = 0 THEN 0 ELSE req[n].calls + Sum(n - 1)
              IN  Sum(NumReq)

NoSweep == [k \in Keys |-> 0]

\* The step of request r ends in res.
Commit(r, res) ==
    /\ Len(res.W.rl) <= MaxObjs
    /\ TotalCalls - req[r].calls + res.q.calls <= env.calls
    /\ rl' = Settle(res.W.rl)
    /\ buckets' = res.W.buckets
    /\ url_rate_limits' = res.W.urls
    /\ global_rate_limits' = res.W.globals
    /\ life' = res.W.life
    /\ req' = [x \in Requests |->
                 IF x = r THEN res.q ELSE Wake(req[x], res.W.rl)]
    /\ swept' = NoSweep
    /\ UNCHANGED <<use_timestamp, now, env, gateVars, dataVars>>

\* Lines 540-546: no session yet and no shed task.
NoLife == [session |-> "none", shed_task |-> "none"]

\* Lines 645-681: HTTPClient.recreate, which opens a session when there is
\* none or it is closed, and then _start_ratelimit_shedding_loop.
recreate(l) ==
    IF l.session = "open" THEN l
    ELSE [session |-> "open", shed_task |-> "running"]

\* Lines 1109-1111: close() cancels the shed task and awaits its end.
CloseShedTask(l) ==
    IF l.shed_task = "running" THEN [l EXCEPT !.shed_task = "cancelled"] ELSE l

\* A client that keeps one global gate for every credential.
GlobalKey_Shared(auth) == None

\* Lines 768-769: the key of _global_rate_limits is the Authorization value.
GlobalKey(auth) == auth

\* Lines 607-643 and 765: HTTPClient._make_headers, then
\* headers.get("Authorization").
make_headers(hdr, auth, default_auth) ==
    IF hdr # MISSING THEN hdr
    ELSE IF auth = None THEN None
    ELSE IF auth = MISSING THEN default_auth
    ELSE auth

\* Lines 767-775: find or create the global gate and the route gate.
FindOrCreate(W, route, auth) ==
    LET W1 == IF W.globals[GlobalKey(auth)] # 0 THEN W
              ELSE [W EXCEPT
                      !.rl = Append(W.rl, NewGlobalRateLimit(max_global_requests)),
                      !.globals[GlobalKey(auth)] = Len(W.rl) + 1]
    IN  IF W1.urls[<<route, auth>>] # 0 THEN W1
        ELSE [W1 EXCEPT !.rl = Append(W1.rl, NewRateLimit(W.use_ts)),
                        !.urls[<<route, auth>>] = Len(W1.rl) + 1]

\* A fail-fast test that looks at the global gate only.
FailsFast_GlobalOnly(W, q) == ~q.retry_request /\ locked(W.rl[q.glob])

\* Lines 786-804: retry_request=False fails fast on a locked gate.
FailsFast(W, q) ==
    ~q.retry_request /\ (locked(W.rl[q.glob]) \/ locked(W.rl[q.url]))

\* request(route, auth=auth, retry_request=retry) up to its first suspension.
Call(W, q0, route, given, retry, t) ==
    LET auth == make_headers(given[1], given[2], env.default_auth)
        W1 == FindOrCreate([W EXCEPT !.life = recreate(W.life)], route, auth)
        q == [q0 EXCEPT !.route = route, !.auth = auth, !.given = given,
                        !.retry_request = retry,
                        !.glob = W1.globals[GlobalKey(auth)],
                        !.url = W1.urls[<<route, auth>>]]
    IN  IF FailsFast(W1, q)
        THEN Raise(W1, q, "HTTPInternalRatelimitLocked")
        ELSE LoopTop(W1, q, t)

\* The routes a new call may name: those already called and one more (the
\* route names are interchangeable).
RoutesToCall ==
    LET used == {req[x].route : x \in {y \in Requests : req[y].pc # "idle"}}
    IN  IF used = {} THEN {"r1"} ELSE (used \cup {"r2"}) \cap env.routes

Dispatch(r) ==
    /\ req[r].pc = "idle"
    /\ \A x \in Requests : x < r => req[x].pc # "idle"
    /\ \E route \in RoutesToCall, given \in env.given, retry \in env.retry :
          Commit(r, Call(World, req[r], route, given, retry, now))

\* The global gate's event was set while r waited on it.
WakeGlobal(r) ==
    /\ req[r].pc = "wait_global" /\ req[r].woken
    /\ Commit(r, GlobalAcquire(World, req[r], now))

\* The route gate's event was set while r waited on it.
WakeUrl(r) ==
    /\ req[r].pc = "wait_url" /\ req[r].woken
    /\ Commit(r, UrlAcquire(World, req[r], now))

\* The backoff sleep (or the await of the body) of a retried pass is over.
WakeSleep(r) ==
    /\ req[r].pc = "sleep"
    /\ Commit(r, LoopTop(World, [req[r] EXCEPT !.pc = "run", !.sleep = 0], now))

\* Lines 850: global_rate_limit.update(response); a global 429 suspends in
\* response.json(), which raises ContentTypeError for a body that is no JSON.
OnResponse(W, q, response, t) ==
    LET q1 == [q EXCEPT !.status = response.status, !.resp_no = q.calls]
        W1 == SetRL(W, q.glob, GlobalUpdateHead(W.rl[q.glob], response))
    IN  IF IsGlobalScoped(response) /\ response.status = 429
        THEN IF response.json
             THEN St(W1, [q1 EXCEPT !.pc = "global_json", !.pending = response])
             ELSE Raise(W1, q1, "ContentTypeError")
        ELSE ProcessResponse(W1, q1, response, t)

\* The responses the server sends in this model, by name, at time t.
ResponseOf(kind, t) ==
    CASE kind = "ok_a" -> [Resp(200, FALSE, "a", 1) EXCEPT !.reset = t + 1]
      [] kind = "ok_b" -> [Resp(200, FALSE, "b", 0) EXCEPT !.reset = t + 1]
      [] kind = "limited_a" -> [Resp(429, FALSE, "a", 0) EXCEPT !.reset = t + 1]
      [] kind = "error" -> Resp(500, FALSE, None, NoVal)
      [] kind = "missing" -> Resp(404, FALSE, "a", 1)
      [] kind = "global" -> [Resp(429, TRUE, None, NoVal) EXCEPT !.retry_after = 1]
      [] kind = "global_novia" ->
            [Resp(429, TRUE, None, NoVal) EXCEPT !.retry_after = 1,
                                                 !.via = FALSE]
      [] kind = "limited_novia" -> [Resp(429, FALSE, "a", 0) EXCEPT !.via = FALSE]
      [] kind = "limited_text" -> [Resp(429, FALSE, "a", 0) EXCEPT !.json = FALSE]
      [] kind = "limited_ban" ->
            [Resp(429, FALSE, "a", 0) EXCEPT !.via = FALSE, !.json = FALSE]
      [] kind = "bad_gateway" -> Resp(502, FALSE, None, NoVal)
      [] kind = "timeout" -> Resp(504, FALSE, None, NoVal)
      [] kind = "bad_request" -> Resp(400, FALSE, "a", 1)
      [] kind = "unauthorized" -> Resp(401, FALSE, "a", 1)
      [] kind = "forbidden" -> Resp(403, FALSE, "a", 1)
      [] kind = "unimplemented" -> Resp(501, FALSE, "a", 1)
      [] kind = "unavailable" -> Resp(503, FALSE, "a", 1)
      [] kind = "scoped" ->
            [Resp(429, FALSE, "a", 0) EXCEPT !.xscope = TRUE, !.retry_after = 1]

\* The transport call of r returns the response of this kind.
RespondWith(r, kind) ==
    /\ req[r].pc = "transport"
    /\ Commit(r, OnResponse(World, req[r], ResponseOf(kind, now), now))

\* The transport call of r returns a response.
Respond(r) == \E kind \in env.kinds : RespondWith(r, kind)

\* A handler that takes every OSError for a connection reset.
IsConnectionReset_Any(errno) == TRUE

\* Line 924: the errnos of "connection reset by peer".
IsConnectionReset(errno) == errno \in {54, 10054}

\* Lines 921-928: the transport call of r raises OSError.
OnOSError(W, q, errno) ==
    IF q.retry_count < max_retry_count - 1 /\ IsConnectionReset(errno)
    THEN St(W, [q EXCEPT !.pc = "sleep", !.sleep = 1 + q.retry_count * 2,
                         !.retry_count = q.retry_count + 1])
    ELSE Raise(W, q, "OSError")

\* The transport call of r raises the OSError of this errno.
TransportFailsWith(r, errno) ==
    /\ req[r].pc = "transport"
    /\ Commit(r, OnOSError(World, req[r], errno))

\* The transport call of r raises an OSError.
TransportFails(r) == \E errno \in env.errnos : TransportFailsWith(r, errno)

\* response.json() returned inside GlobalRateLimit.update.
GlobalJson(r) ==
    /\ req[r].pc = "global_json"
    /\ LET q == req[r]
           W1 == SetRL(World, q.glob,
                       GlobalUpdateTail(rl[q.glob], q.pending, now))
       IN  Commit(r, ProcessResponse(W1, [q EXCEPT !.pending = NoResp],
                                     q.pending, now))

\* The reset task of object i wakes from its sleep.
TimerFire(i) ==
    /\ resetting(rl[i]) /\ rl[i].task <= now
    /\ LET rls == [rl EXCEPT ![i] = reset_remaining(rl[i])]
       IN  /\ rl' = Settle(rls)
           /\ req' = [x \in Requests |-> Wake(req[x], rls)]
    /\ swept' = NoSweep
    /\ UNCHANGED <<buckets, url_rate_limits, global_rate_limits,
                   use_timestamp, life, now, env, gateVars, dataVars>>

\* A sweep that does not look at the reset task.
Sheds_IgnoresTask(value, t, threshold) ==
    value.reset = NoVal \/ value.reset < t - threshold

\* HTTPClient._shed_ratelimits: the condition under which an entry is popped.
Sheds(value, t, threshold) ==
    (value.reset = NoVal \/ value.reset < t - threshold) /\ ~resetting(value)

\* HTTPClient._shed_ratelimits, one sweep of _ratelimit_shedding_loop.
Shed ==
    /\ life.shed_task = "running"
    /\ url_rate_limits' =
          [k \in Keys |->
             IF url_rate_limits[k] # 0
                /\ Sheds(rl[url_rate_limits[k]], now, ratelimit_shed_threshold)
             THEN 0 ELSE url_rate_limits[k]]
    /\ swept' = url_rate_limits
    /\ UNCHANGED <<rl, buckets, global_rate_limits, use_timestamp, life, req,
                   now, env, gateVars, dataVars>>

\* Lines 1102-1111: HTTPClient.close, called when no request is in flight.
\* The RateLimit objects and their reset tasks are not touched.
Close ==
    /\ life.session = "open"
    /\ \A r \in Requests : req[r].pc \in {"idle", "done"}
    /\ url_rate_limits' = [k \in Keys |-> 0]
    /\ global_rate_limits' = [a \in Auths |-> 0]
    /\ life' = CloseShedTask([life EXCEPT !.session = "closed"])
    /\ swept' = NoSweep
    /\ UNCHANGED <<rl, buckets, use_timestamp, req, now, env, gateVars,
                   dataVars>>

\* A second passes.  A reset task whose sleep is over runs within the second.
Tick ==
    /\ now < env.time
    /\ \A i \in DOMAIN rl : ~(resetting(rl[i]) /\ rl[i].task <= now)
    /\ now' = now + 1
    /\ swept' = NoSweep
    /\ UNCHANGED <<clientVars, env, gateVars, dataVars>>

vars == <<rl, buckets, url_rate_limits, global_rate_limits, use_timestamp,
          life, req, now, env, swept, gate, callers, ops, files, heap, cache,
          cache_timestamps, managers, clock, profile>>

IdleCaller == [pc |-> "idle", woken |-> FALSE, pending |-> NoResp]

----------------------------------------------------------------------------
(* DataManager (src/nexon/dataManager.py).                                 *)
(*                                                                         *)
(* A data dict has one key: its contents is 0 for {} and v for {"key": v}. *)
(* The dicts are objects in heap, because the cache and the instances      *)
(* share them; an object nothing refers to any more has contents 0.        *)

\* The paths of the JSON files, the instances, the dict objects.
DataFiles == {"f1", "f2", "f3"}
Managers == 1..NumManagers
Dicts == 1..(NumManagers + 3)

\* No file at the path.
NoFile == -1

\* DataManager._cache_limit and _cache_ttl, as the test suite sets them.
cache_limit == 2
cache_ttl == 1

\* An instance: whether it exists, self.file, self.auto_save, self.data.
NoManager == [live |-> FALSE, file |-> "f1", auto_save |-> TRUE, data |-> 0]

\* The shared state of the class and the disk as one value.
Store == [files |-> files, heap |-> heap, cache |-> cache,
          stamps |-> cache_timestamps, clock |-> clock]

\* key in _cache_timestamps, and _cache_timestamps[key].
HasStamp(stamps, f) == \E i \in DOMAIN stamps : stamps[i][1] = f
Stamp(stamps, f) == stamps[CHOOSE i \in DOMAIN stamps : stamps[i][1] = f][2]

\* _cache_timestamps[key] = t: a key the dict has keeps its place, a new one
\* goes last.
SetStamp(stamps, f, t) ==
    IF HasStamp(stamps, f)
    THEN [i \in DOMAIN stamps |->
            IF stamps[i][1] = f THEN <<f, t>> ELSE stamps[i]]
    ELSE Append(stamps, <<f, t>>)

\* del _cache[key]; del _cache_timestamps[key] for the keys in gone.
Evict(D, gone) ==
    [D EXCEPT !.cache = [f \in DataFiles |-> IF f \in gone THEN 0 ELSE D.cache[f]],
              !.stamps = SelectSeq(D.stamps, LAMBDA item : item[1] \notin gone)]

\* sorted(items, key=lambda x: x[1]): by timestamp, equal ones in the order
\* they had.
RECURSIVE SortedByTime(_)
SortedByTime(items) ==
    IF items = <<>> THEN <<>>
    ELSE LET rest == SortedByTime(SubSeq(items, 1, Len(items) - 1))
             x == items[Len(items)]
             before == SelectSeq(rest, LAMBDA y : y[2] <= x[2])
             after == SelectSeq(rest, LAMBDA y : y[2] > x[2])
         IN  before \o <<x>> \o after

\* A cache that evicts the entries accessed last.
Oldest_Newest(items, n) ==
    {SortedByTime(items)[i][1] : i \in (Len(items) - n + 1)..Len(items)}

\* Lines 109-111: the keys of the n first items of the sorted list.
Oldest(items, n) == {SortedByTime(items)[i][1] : i \in 1..n}

\* Lines 98-102: the keys whose timestamp is more than _cache_ttl back.
Expired(stamps, t) ==
    {stamps[i][1] : i \in {j \in DOMAIN stamps : t - stamps[j][2] > cache_ttl}}

\* Lines 96-114: DataManager._clean_cache.
clean_cache(D) ==
    LET D1 == Evict(D, Expired(D.stamps, D.clock))
        excess == Cardinality({f \in DataFiles : D1.cache[f] # 0}) - cache_limit
    IN  IF excess > 0 THEN Evict(D1, Oldest(D1.stamps, excess)) ELSE D1

\* Lines 183-197: DataManager.save of instance x.
save(D, x) ==
    clean_cache([D EXCEPT !.files[x.file] = D.heap[x.data],
                          !.cache[x.file] = x.data,
                          !.stamps = SetStamp(D.stamps, x.file, D.clock)])

\* A load() that reads the disk first.
CacheHit_Never(D, f) == FALSE

\* Line 212: cache_key in self._cache.
CacheHit(D, f) == D.cache[f] # 0

\* Lines 199-228: DataManager.load of instance x, whose self.data is the
\* default, a new empty dict.  Gives the store and self.data afterwards.
load(D, x) ==
    IF CacheHit(D, x.file)
    THEN [D |-> [D EXCEPT !.stamps = SetStamp(D.stamps, x.file, D.clock)],
          data |-> D.cache[x.file]]
    ELSE IF D.files[x.file] # NoFile
    THEN [D |-> clean_cache([D EXCEPT
                   !.heap[x.data] = D.files[x.file],
                   !.cache[x.file] = x.data,
                   !.stamps = SetStamp(D.stamps, x.file, D.clock)]),
          data |-> x.data]
    ELSE [D |-> D, data |-> x.data]

\* The dict objects something refers to.
Referenced(D, ms) ==
    {D.cache[f] : f \in DataFiles} \cup
    {ms[m].data : m \in {n \in Managers : ms[n].live}}

\* The step ends in store D and instances ms.
DataCommit(D, ms) ==
    /\ files' = D.files
    /\ heap' = [d \in Dicts |-> IF d \in Referenced(D, ms) THEN D.heap[d] ELSE 0]
    /\ cache' = D.cache
    /\ cache_timestamps' = D.stamps
    /\ managers' = ms
    /\ UNCHANGED <<clock, profile, clientVars, now, env, swept, gateVars>>

\* Lines 60-94: DataManager(name=..., auto_save=a) for the file f, bound to
\* the variable m (the instance m named before is dropped).
ConstructWith(m, f, a) ==
    LET others == [managers EXCEPT ![m] = NoManager]
        d == CHOOSE d \in Dicts :
               /\ d \notin Referenced(Store, others)
               /\ \A e \in Dicts : e < d => e \in Referenced(Store, others)
        x == [live |-> TRUE, file |-> f, auto_save |-> a, data |-> d]
        res == load([Store EXCEPT !.heap[d] = 0], x)
    IN  DataCommit(res.D, [managers EXCEPT ![m] = [x EXCEPT !.data = res.data]])

Construct(m) ==
    \E f \in profile.files, a \in profile.autos : ConstructWith(m, f, a)

\* Lines 297-321: DataManager.set("key", v), also __setitem__.
SetKey(m) ==
    /\ managers[m].live
    /\ \E v \in 1..MaxValue :
         LET D == [Store EXCEPT !.heap[managers[m].data] = v]
         IN  DataCommit(IF managers[m].auto_save THEN save(D, managers[m]) ELSE D,
                        managers)

\* Lines 245-252: DataManager.delete("key") of a key the dict has.
DeleteKey(m) ==
    /\ managers[m].live
    /\ heap[managers[m].data] # 0
    /\ DataCommit(save([Store EXCEPT !.heap[managers[m].data] = 0], managers[m]),
                  managers)

\* DataManager.save called by the user.
Save(m) ==
    /\ managers[m].live
    /\ DataCommit(save(Store, managers[m]), managers)

\* Lines 169-177: DataManager.__exit__.
Exit(m) ==
    /\ managers[m].live
    /\ DataCommit(IF managers[m].auto_save THEN save(Store, managers[m]) ELSE Store,
                  managers)

\* Lines 267-275: DataManager.delete() removes the file.
DeleteFile(m) ==
    /\ managers[m].live
    /\ files[managers[m].file] # NoFile
    /\ DataCommit([Store EXCEPT !.files[managers[m].file] = NoFile], managers)

\* Something else than a DataManager rewrites an existing file.
DiskWrite(f) ==
    /\ f \in profile.files
    /\ files[f] # NoFile
    /\ \E v \in 0..MaxValue :
         v # files[f] /\ DataCommit([Store EXCEPT !.files[f] = v], managers)

\* DataManager._cache.clear() and _cache_timestamps.clear().
CacheClear ==
    /\ cache_timestamps # <<>>
    /\ DataCommit(Evict(Store, DataFiles), managers)

\* time.time() moves on.
ClockTick ==
    /\ clock < MaxClock
    /\ clock' = clock + 1
    /\ UNCHANGED <<files, heap, cache, cache_timestamps, managers, profile,
                   clientVars, now, env, swept, gateVars>>

\* Nothing on disk, nothing cached, no instance.
DataInit(p) ==
    /\ files = [f \in DataFiles |-> NoFile]
    /\ heap = [d \in Dicts |-> 0]
    /\ cache = [f \in DataFiles |-> 0]
    /\ cache_timestamps = <<>>
    /\ managers = [m \in Managers |-> NoManager]
    /\ clock = 0
    /\ profile = p

\* The users of DataManager: one file opened with and without auto_save;
\* several files opened with auto_save.
OneFile == [files |-> {"f1"}, autos |-> BOOLEAN]
ManyFiles == [files |-> DataFiles, autos |-> {TRUE}]

\* The environments.  Broad: every kind of call and response, few transport
\* calls.  Deep: one route and the retried responses, enough transport calls
\* for one request to run out of passes.
Broad == [calls |-> MaxCalls, time |-> MaxTime, routes |-> Routes, retry |-> BOOLEAN,
          kinds |-> {"ok_a", "ok_b", "limited_a", "error", "missing", "global"},
          errnos |-> {54, 104},
          given |-> {<<MISSING, None>>}, default_auth |-> None]

Deep == [calls |-> DeepCalls, time |-> MaxTime, routes |-> {"r1"}, retry |-> BOOLEAN,
         kinds |-> {"ok_b", "limited_a", "error", "global"},
         errnos |-> {54, 104, 10054},
          given |-> {<<MISSING, None>>}, default_auth |-> None]

\* Sweep: the reaper's runs, with successful and retried calls on two routes.
Sweep == [calls |-> SweepCalls, time |-> SweepTime, routes |-> Routes,
          retry |-> {TRUE}, kinds |-> {"ok_a", "ok_b", "error", "global"},
          errnos |-> {54},
          given |-> {<<MISSING, None>>}, default_auth |-> None]

\* Codes: one route, every status the handler tells apart and the four kinds
\* of 429.
Codes == [calls |-> CodesCalls, time |-> MaxTime, routes |-> {"r1"},
          retry |-> BOOLEAN,
          kinds |-> {"ok_a", "limited_a", "limited_novia", "limited_text",
                     "limited_ban", "missing", "bad_request", "unauthorized",
                     "forbidden", "unimplemented", "unavailable", "error",
                     "global"},
          errnos |-> {104},
          given |-> {<<MISSING, None>>}, default_auth |-> None]

\* Backoff: one route where nothing but a 500, 502 or 504 is retried (the
\* global 429 has no Via header, the OSError is not a connection reset).
BackoffEnv == [calls |-> BackoffCalls, time |-> MaxTime, routes |-> {"r1"},
               retry |-> BOOLEAN,
               kinds |-> {"ok_a", "error", "bad_gateway", "timeout",
                          "global_novia"},
               errnos |-> {104},
          given |-> {<<MISSING, None>>}, default_auth |-> None]

\* Creds: one route called with and without credentials, given in the
\* headers, as the auth argument or left to the client's default.
Creds == [calls |-> CredsCalls, time |-> MaxTime, routes |-> {"r1"},
          retry |-> BOOLEAN,
          kinds |-> {"ok_a", "global"},
          errnos |-> {54},
          given |-> {<<MISSING, None>>, <<MISSING, MISSING>>,
                     <<MISSING, "Bot A">>, <<"Bot A", None>>},
          default_auth |-> "Bot A"]

\* HTTPClient.__init__
ClientInit(e) ==
    /\ rl = <<>>
    /\ buckets = [n \in BucketNames |-> 0]
    /\ url_rate_limits = [k \in Keys |-> 0]
    /\ global_rate_limits = [a \in Auths |-> 0]
    /\ use_timestamp \in BOOLEAN
    /\ life = NoLife
    /\ req = [r \in Requests |-> IdleReq]
    /\ now = 0
    /\ env = e
    /\ swept = NoSweep
    /\ DataInit(OneFile)

\* The client in environment e; the lone gate is not used.
InitIn(e) ==
    /\ ClientInit(e)
    /\ gate = NewRateLimit(FALSE)
    /\ callers = [c \in Callers |-> IdleCaller]
    /\ ops = 0

Init == InitIn(Broad)

Next ==
    \/ \E r \in Requests : Dispatch(r)
    \/ \E r \in Requests : WakeGlobal(r)
    \/ \E r \in Requests : WakeUrl(r)
    \/ \E r \in Requests : WakeSleep(r)
    \/ \E r \in Requests : Respond(r)
    \/ \E r \in Requests : TransportFails(r)
    \/ \E r \in Requests : GlobalJson(r)
    \/ \E i \in DOMAIN rl : TimerFire(i)
    \/ Tick

\* The request executor, the registry and the gates.
Spec == Init /\ [][Next]_vars

\* The same with the reaper (ratelimit_shed_timer is not None).
NextReaper == Next \/ Shed

SpecReaper == InitIn(Sweep) /\ [][NextReaper]_vars

\* The request executor where one request can use up its five passes.
SpecDeep == InitIn(Deep) /\ [][Next]_vars

\* Closing: one route, and a client that is closed between calls.
Closing == [calls |-> ClosingCalls, time |-> MaxTime, routes |-> {"r1"},
            retry |-> {TRUE},
            kinds |-> {"ok_a", "global"},
            errnos |-> {54},
            given |-> {<<MISSING, None>>}, default_auth |-> None]

NextClose == Next \/ Shed \/ Close

\* The client with its sweeps and its close().
SpecClose == InitIn(Closing) /\ [][NextClose]_vars

\* The request executor called with several credentials.
SpecCreds == InitIn(Creds) /\ [][Next]_vars

\* Scopes: one route; 429s marked X-RateLimit-Global: true, and 429s that
\* carry X-RateLimit-Scope: global alone.
Scopes == [calls |-> ScopesCalls, time |-> MaxTime, routes |-> {"r1"},
           retry |-> BOOLEAN,
           kinds |-> {"ok_a", "global", "scoped"},
           errnos |-> {54},
           given |-> {<<MISSING, None>>}, default_auth |-> None]

\* The request executor with both kinds of global 429.
SpecScopes == InitIn(Scopes) /\ [][Next]_vars

\* The request executor answered with every status.
SpecCodes == InitIn(Codes) /\ [][Next]_vars

\* The request executor retrying server errors only.
SpecBackoff == InitIn(BackoffEnv) /\ [][Next]_vars

----------------------------------------------------------------------------
(* One RateLimit (or GlobalRateLimit) object on its own: coroutines call   *)
(* acquire(), the ones that got through bring back a response and call     *)
(* update(), the registry calls migrate_to(), the reset task fires.        *)

\* A caller is idle, suspended in acquire() on the event ("waiting"), past
\* acquire() with its request under way ("acquired"), suspended in the
\* response.json() of GlobalRateLimit.update ("json"), or has got
\* RateLimitMigrating from acquire() ("raised").
GateCommit(g, cs) ==
    /\ gate' = [g EXCEPT !.woke = FALSE]
    /\ callers' = [c \in Callers |->
                     IF cs[c].pc = "waiting" /\ g.woke
                     THEN [cs[c] EXCEPT !.woken = TRUE] ELSE cs[c]]
    /\ UNCHANGED <<clientVars, env, swept, dataVars>>

\* RateLimit.acquire / GlobalRateLimit.acquire from the test of the event on:
\* the gate and the caller's position afterwards.
GateAcquire(b, t) ==
    LET b0 == LockIfHit(b, t)
        take == AcquireTake(b0)
    IN  IF ~b0.ready THEN [b |-> b0, pc |-> "waiting"]
        ELSE IF take.raised THEN [b |-> b0, pc |-> "raised"]
        ELSE [b |-> IF b.kind = "global" THEN GlobalAfterAcquire(take.b, t)
                    ELSE take.b,
              pc |-> "acquired"]

\* Caller c calls gate.acquire().
Acquire(c) ==
    /\ callers[c].pc \in {"idle", "raised"}
    /\ ops < MaxOps
    /\ LET res == GateAcquire(gate, now)
       IN  GateCommit(res.b, [callers EXCEPT ![c] = [IdleCaller EXCEPT !.pc = res.pc]])
    /\ ops' = ops + 1
    /\ now' = now

\* The event was set while c waited on it: acquire() goes on.
Resume(c) ==
    /\ callers[c].pc = "waiting" /\ callers[c].woken
    /\ LET res == GateAcquire(gate, now)
       IN  GateCommit(res.b, [callers EXCEPT ![c] = [IdleCaller EXCEPT !.pc = res.pc]])
    /\ UNCHANGED <<ops, now>>

\* The responses a route gate is updated with, at time t: the rate-limit
\* headers present or absent, the counts within the limit.
GateResponses(t) ==
    { [Resp(200, FALSE, n, rem) EXCEPT !.limit = lim, !.reset = rs,
                                       !.reset_after = ra] :
        n \in BucketNames, rem \in {NoVal} \cup (0..MaxLimit - 1),
        lim \in {NoVal, MaxLimit}, rs \in {NoVal, t + 1}, ra \in {NoVal, 2} }
    \cup {ResponseOf("global", t),
          [ResponseOf("global", t) EXCEPT !.retry_after = 2],
          [ResponseOf("global", t) EXCEPT !.retry_after = NoVal,
                                          !.hdr_retry_after = 2]}

\* The request of caller c is answered and gate.update(response) runs: all of
\* RateLimit.update, or GlobalRateLimit.update up to its await.
UpdateWith(c, response) ==
    /\ callers[c].pc = "acquired"
    /\ IF gate.kind = "global"
       THEN IF IsGlobalScoped(response) /\ response.status = 429
            THEN GateCommit(GlobalUpdateHead(gate, response),
                            [callers EXCEPT ![c].pc = "json",
                                            ![c].pending = response])
            ELSE GateCommit(release(gate),
                            [callers EXCEPT ![c] = IdleCaller])
       ELSE GateCommit(release(RateLimitUpdate(gate, response, now).b),
                       [callers EXCEPT ![c] = IdleCaller])
    /\ UNCHANGED <<ops, now>>

Update(c) == \E response \in GateResponses(now) : UpdateWith(c, response)

\* response.json() returned: the rest of GlobalRateLimit.update.
UpdateJson(c) ==
    /\ callers[c].pc = "json"
    /\ GateCommit(release(GlobalUpdateTail(gate, callers[c].pending, now)),
                  [callers EXCEPT ![c] = IdleCaller])
    /\ UNCHANGED <<ops, now>>

\* The attempt of caller c leaves the `async with` block with no response to
\* update the gate from (the transport call raised, the coroutine was
\* cancelled, or the route key was found re-pointed): __aexit__ runs.
Abandon(c) ==
    /\ callers[c].pc = "acquired"
    /\ GateCommit(release(gate), [callers EXCEPT ![c] = IdleCaller])
    /\ UNCHANGED <<ops, now>>

\* The registry calls gate.migrate_to(name): on a route gate that has a name,
\* with the (truthy) name of the canonical bucket.
MigrateTo(name) ==
    /\ gate.kind = "route" /\ gate.bucket # None
    /\ ops < MaxOps
    /\ GateCommit(migrate_to(gate, name), callers)
    /\ ops' = ops + 1
    /\ now' = now

\* The sleep of the gate's reset task is over.  Beyond the last second the
\* clock counts, a sleep ends at some later moment.
GateTimerDue == resetting(gate) /\ (gate.task <= now \/ now = MaxTime)

GateTimerFire ==
    /\ GateTimerDue
    /\ GateCommit(reset_remaining(gate), callers)
    /\ UNCHANGED <<ops, now>>

GateTick ==
    /\ now < MaxTime
    /\ ~(resetting(gate) /\ gate.task <= now)
    /\ now' = now + 1
    /\ UNCHANGED <<clientVars, env, swept, gateVars, dataVars>>

GateInit ==
    /\ ClientInit(Broad) /\ use_timestamp = FALSE
    /\ gate \in {NewRateLimit(TRUE), NewRateLimit(FALSE),
                 NewGlobalRateLimit(max_global_requests)}
    /\ callers = [c \in Callers |-> IdleCaller]
    /\ ops = 0

GateNext ==
    \/ \E c \in Callers : Acquire(c)
    \/ \E c \in Callers : Resume(c)
    \/ \E c \in Callers : Update(c)
    \/ \E c \in Callers : UpdateJson(c)
    \/ \E c \in Callers : Abandon(c)
    \/ \E name \in BucketNames : MigrateTo(name)
    \/ GateTimerFire
    \/ GateTick

\* One gate and its callers.
SpecGate == GateInit /\ [][GateNext]_vars

\* The same where the event loop runs every coroutine that can run and time
\* passes.
SpecGateFair ==
    /\ SpecGate
    /\ \A c \in Callers : WF_vars(Resume(c))
    /\ WF_vars(GateTimerFire)
    /\ WF_vars(GateTick)

----------------------------------------------------------------------------
(* DataManager: the specifications *)

\* The calls of the DataManager interface.
DataNextApi ==
    \/ \E m \in Managers : Construct(m)
    \/ \E m \in Managers : SetKey(m)
    \/ \E m \in Managers : DeleteKey(m)
    \/ \E m \in Managers : Save(m)
    \/ \E m \in Managers : Exit(m)
    \/ \E m \in Managers : DeleteFile(m)
    \/ ClockTick

\* The same with a disk and a cache that are also written from outside.
DataNext ==
    \/ DataNextApi
    \/ \E f \in DataFiles : DiskWrite(f)
    \/ CacheClear

\* Opening and saving files.
DataNextCache ==
    \/ \E m \in Managers : Construct(m)
    \/ \E m \in Managers : Save(m)
    \/ ClockTick

\* The client and the gate are not used.
DataInitIn(p) ==
    /\ rl = <<>>
    /\ buckets = [n \in BucketNames |-> 0]
    /\ url_rate_limits = [k \in Keys |-> 0]
    /\ global_rate_limits = [a \in Auths |-> 0]
    /\ use_timestamp = FALSE
    /\ life = NoLife
    /\ req = [r \in Requests |-> IdleReq]
    /\ now = 0
    /\ env = Broad
    /\ swept = NoSweep
    /\ gate = NewRateLimit(FALSE)
    /\ callers = [c \in Callers |-> IdleCaller]
    /\ ops = 0
    /\ DataInit(p)

\* DataManager instances of one file, through the interface only.
SpecDataApi == DataInitIn(OneFile) /\ [][DataNextApi]_vars

\* DataManager instances of one file, the file and the cache also changed
\* from outside.
SpecData == DataInitIn(OneFile) /\ [][DataNext]_vars

\* DataManager instances of several files.
SpecDataCache == DataInitIn(ManyFiles) /\ [][DataNextCache]_vars

----------------------------------------------------------------------------
(* Properties of the request executor *)

Running(q) == q.pc \notin {"idle", "done"}
Done(q) == q.pc = "done"
Returned(q) == q.outcome.kind \in {"return", "return_exhausted"}
InTransport(q) == q.pc \in {"transport", "global_json"}

C2_ReturnsSuccessBodyOrRaises ==
    \A r \in Requests :
        (Done(req[r]) /\ Returned(req[r]))
            => req[r].outcome.resp_no # 0 /\ req[r].outcome.status < 400

\* C3 as claimed: a redirect does not use up a pass of the retry loop, so the
\* passes begun never exceed the transport calls made (plus the one under way).
C3_RedirectKeepsBudget ==
    \A r \in Requests :
        Running(req[r]) =>
            req[r].retry_count + (IF InTransport(req[r]) THEN 1 ELSE 0)
                <= req[r].calls

\* C3 as amended: every redirect (a RateLimitMigrating from acquire, or a
\* re-pointed route key) uses up one of the 5 passes of the loop: the passes
\* begun are the transport calls made plus the redirects, so a request that
\* was redirected k times makes at most 5 - k transport calls.
C3_RedirectUsesAPass ==
    \A r \in Requests :
        /\ req[r].calls + req[r].redirs <= max_retry_count
        /\ Running(req[r]) =>
              req[r].retry_count + (IF InTransport(req[r]) THEN 1 ELSE 0)
                  = req[r].calls + req[r].redirs

\* A redirected request went on to its transport call.
C3_Witness ==
    \E r \in Requests : req[r].redirs > 0 /\ req[r].pc = "transport"

\* The gates request r named (route, auth) would use, in the current maps.
GateIsLocked(route, auth) ==
    \/ global_rate_limits[auth] # 0 /\ locked(rl[global_rate_limits[auth]])
    \/ url_rate_limits[<<route, auth>>] # 0
          /\ locked(rl[url_rate_limits[<<route, auth>>]])

\* C4: a request() called with retry_request=False while its global gate or
\* its route gate is locked raises HTTPInternalRatelimitLocked in that very
\* step, makes no transport call, and leaves every existing gate's remaining,
\* event and reset task as they were.
C4_FailFastWhenLocked ==
    [][\A r \in Requests :
          (/\ req[r].pc = "idle" /\ req'[r].pc # "idle"
           /\ ~req'[r].retry_request
           /\ GateIsLocked(req'[r].route, req'[r].auth))
          => /\ req'[r].pc = "done"
             /\ req'[r].outcome.err = "HTTPInternalRatelimitLocked"
             /\ req'[r].calls = 0
             /\ \A i \in DOMAIN rl :
                   /\ rl'[i].remaining = rl[i].remaining
                   /\ rl'[i].ready = rl[i].ready
                   /\ rl'[i].task = rl[i].task]_vars

\* A call failed fast.
C4_Witness ==
    \E r \in Requests :
        Done(req[r]) /\ req[r].outcome.err = "HTTPInternalRatelimitLocked"

\* C5: a request() called with retry_request=False is never suspended on a
\* gate's event.
C5_NoRetryNeverWaits ==
    \A r \in Requests :
        ~req[r].retry_request => req[r].pc \notin {"wait_global", "wait_url"}

\* C8 as claimed: the global bucket was decremented once per transport call
\* of the request (and once for the pass still waiting on the route gate),
\* and never for a pass that ended without a transport call.
C8_GlobalDecrementsAreCalls ==
    \A r \in Requests :
        req[r].gdec = req[r].calls + (IF req[r].pc = "wait_url" THEN 1 ELSE 0)

\* C8 as amended: the global bucket is decremented once in every pass that
\* gets through the global gate: once per transport call and also once per
\* pass ended by a redirect (the global gate is taken before the route gate).
C8_GlobalDecrementsArePasses ==
    \A r \in Requests :
        req[r].gdec = req[r].calls + req[r].redirs
                          + (IF req[r].pc = "wait_url" THEN 1 ELSE 0)

\* A request that was redirected and made a transport call.
C8_Witness ==
    \E r \in Requests :
        req[r].redirs > 0 /\ req[r].calls > 0 /\ req[r].gdec > req[r].calls

\* C9: an entry the sweep removed had no active reset task, and its reset
\* time was not later than ratelimit_shed_threshold seconds ago.
C9_SweepSparesFutureAndCounting ==
    \A k \in Keys :
        (swept[k] # 0 /\ url_rate_limits[k] = 0)
            => /\ ~resetting(rl[swept[k]])
               /\ ~(rl[swept[k]].reset # NoVal
                     /\ rl[swept[k]].reset > now - ratelimit_shed_threshold)

\* A sweep removed an entry whose reset time was old enough, and kept another
\* one, whose timer was not running, only for its reset time.
C9_Witness ==
    \E k1, k2 \in Keys :
        /\ swept[k1] # 0 /\ url_rate_limits[k1] = 0
        /\ rl[swept[k1]].reset # NoVal
        /\ swept[k2] # 0 /\ url_rate_limits[k2] # 0
        /\ ~resetting(rl[swept[k2]])

----------------------------------------------------------------------------
(* Properties of one gate *)

\* The step is a whole RateLimit.update on a route gate.
IsUpdate == \E c \in Callers : Update(c)

\* In this step caller c's acquire() returned and took a permit.
Completes(c) == callers[c].pc # "acquired" /\ callers'[c].pc = "acquired"

\* In this step caller c ran a part of acquire().
InAcquire(c) == Acquire(c) \/ Resume(c)

\* C6: on a route gate, every update() after the first one leaves remaining
\* less than or equal to what it was before the update.
C6_UpdateNeverRaisesRemaining ==
    [][(IsUpdate /\ gate.kind = "route" /\ ~gate.first_update)
          => gate'.remaining <= gate.remaining]_vars

\* C7: once migrate_to was called on a gate it stays migrating; from then on
\* no acquire() takes a permit, every part of acquire() that runs with the
\* event set ends in RateLimitMigrating, and every caller suspended in
\* acquire() gets RateLimitMigrating in the end.
C7_MigratingGateTurnsEveryoneAway ==
    /\ [][gate.migrating # None =>
            /\ gate'.migrating # None
            /\ \A c \in Callers :
                  /\ ~Completes(c)
                  /\ InAcquire(c) => callers'[c].pc \in {"waiting", "raised"}]_vars
    /\ \A c \in Callers :
          (gate.migrating # None /\ callers[c].pc = "waiting")
              ~> (callers[c].pc = "raised")

\* A caller that was suspended in acquire() has been turned away by
\* migrate_to, and so has been one that arrived later on the locked gate.
C7_Witness ==
    /\ gate.migrating # None
    /\ \E c1, c2 \in Callers :
          /\ c1 # c2
          /\ callers[c1].pc = "raised"
          /\ callers[c2].pc = "waiting"

\* C10: on a gate that is not migrating, a part of acquire() that runs while
\* remaining is 0 leaves the caller suspended, an acquire() returns only from
\* a gate whose remaining is above 0, and remaining goes from 0 to above 0
\* only when the reset task fires or in an update().
C10_EmptyGateHoldsCallers ==
    [][(gate.migrating = None /\ gate'.migrating = None) =>
          /\ \A c \in Callers :
                /\ (InAcquire(c) /\ gate.remaining <= 0)
                      => callers'[c].pc = "waiting"
                /\ Completes(c) => gate.remaining > 0
          /\ (gate.remaining <= 0 /\ gate'.remaining > 0)
                => (GateTimerFire \/ IsUpdate)]_vars

\* A caller is suspended on a gate that is not migrating, has no permit left
\* and has handed one out before.
C10_Witness ==
    /\ gate.migrating = None /\ gate.remaining = 0
    /\ \E c1, c2 \in Callers :
          callers[c1].pc = "waiting" /\ callers[c2].pc = "acquired"

\* C11: when acquire() is called on a gate that is not migrating and has
\* remaining above 0, it returns in that step, without suspending, and
\* remaining is lower by exactly 1.
C11_OpenGateNeverSuspends ==
    [][\A c \in Callers :
          (Acquire(c) /\ gate.migrating = None /\ gate.remaining > 0)
              => /\ callers'[c].pc = "acquired"
                 /\ gate'.remaining = gate.remaining - 1]_vars

\* C12: a gate whose event is clear has no permit left or is migrating.
C12_ClosedGateIsEmpty ==
    ~gate.ready => (gate.remaining <= 0 \/ gate.migrating # None)

\* C13: the refill-interval estimate (_tracked_reset_time) of a gate never
\* decreases, whatever the mode and the responses.
C13_EstimateNeverDecreases ==
    [][gate'.tracked >= gate.tracked]_vars

\* In reset-timestamp mode the estimate has grown from the gap between two
\* reset times.
C13_Witness ==
    gate.kind = "route" /\ gate.use_ts /\ gate.tracked > 1

\* C14: a gate has at most one reset task that is neither done nor cancelled,
\* and it is the one _reset_remaining_task holds; a refill is the work of that
\* one task, which is then done.
C14_OneResetTask ==
    /\ [](gate.live <= 1 /\ (gate.live = 1 <=> resetting(gate)))
    /\ [][GateTimerFire => (gate.live = 1 /\ gate'.live = 0)]_vars

\* A reset task was scheduled while another one was running, and took its
\* place.
C14_Witness ==
    resetting(gate) /\ gate.superseded /\ gate.live = 1

\* C15 as claimed: acquire(), release() and migrate_to() each leave remaining
\* less than or equal to what it was.
C15_OnlyTimerRaisesRemaining ==
    [][(\/ \E c \in Callers : InAcquire(c) \/ Abandon(c)
        \/ \E name \in BucketNames : MigrateTo(name))
          => gate'.remaining <= gate.remaining]_vars

\* C15 as amended: acquire() and release() leave remaining less than or equal
\* to what it was; migrate_to() sets remaining to limit, which raises it
\* whenever a permit had been taken.
C15_MigrateRefillsOthersDoNot ==
    [][/\ (\E c \in Callers : InAcquire(c) \/ Abandon(c))
            => gate'.remaining <= gate.remaining
       /\ (\E name \in BucketNames : MigrateTo(name))
            => gate'.remaining = gate.limit]_vars

\* migrate_to has refilled a gate a caller was suspended on and woken it.
C15_Witness ==
    /\ gate.migrating # None /\ gate.remaining = gate.limit
    /\ \E c \in Callers : callers[c].pc = "waiting" /\ callers[c].woken

ReportedRetryAfter(response) ==
    IF response.retry_after > 0 THEN response.retry_after
    ELSE response.hdr_retry_after

\* C17: when GlobalRateLimit.update has processed a global 429 that reports
\* retry_after = r, the gate is closed and its refill is not due before
\* r + time_offset seconds from then.
C17_GlobalGateStaysShutForRetryAfter ==
    [][\A c \in Callers :
          (UpdateJson(c) /\ ReportedRetryAfter(callers[c].pending) # NoVal)
              => /\ ~gate'.ready
                 /\ gate'.task >= now + ReportedRetryAfter(callers[c].pending)
                                      + time_offset]_vars

----------------------------------------------------------------------------
(* Properties of the error handler, in SpecCodes and SpecBackoff *)

\* The 429 responses among those the server sends.
Kinds429 == {kind \in env.kinds : ResponseOf(kind, now).status = 429}

\* The request ended by raising err for the response of its last transport
\* call.
Surfaced(q, q2, err) ==
    /\ q2.pc = "done"
    /\ q2.outcome.kind = "raise"
    /\ q2.outcome.err = err
    /\ q2.outcome.resp_no = q.calls
    /\ q2.calls = q.calls

\* The request goes to its next pass after sleeping secs seconds.
Retried(q, q2, secs) ==
    /\ q2.pc = "sleep"
    /\ q2.sleep = secs
    /\ q2.retry_count = q.retry_count + 1

\* The request may still be retried: retries are on and a pass is left.
MayRetry(q) == q.retry_request /\ q.retry_count < max_retry_count - 1

\* The step in which the handler sees the 429 response of this kind: the
\* transport call returning it, or the end of GlobalRateLimit.update's read of
\* its body when it is a global one.
Handles429(r, kind) ==
    \/ /\ ~IsGlobalScoped(ResponseOf(kind, now))
       /\ RespondWith(r, kind)
    \/ /\ GlobalJson(r)
       /\ \E t \in 0..now : req[r].pending = ResponseOf(kind, t)

TypedError(status) ==
    IF status = 401 THEN "Unauthorized"
    ELSE IF status = 403 THEN "Forbidden"
    ELSE IF status = 404 THEN "NotFound"
    ELSE IF status >= 500 THEN "DiscordServerError"
    ELSE "HTTPException"

\* The responses whose status is 401, 403, 404, another 4xx that is not 429,
\* or a 5xx outside 500, 502 and 504.
KindsFatal ==
    {kind \in env.kinds :
       LET status == ResponseOf(kind, now).status
       IN  status >= 400 /\ status \notin {429, 500, 502, 504}}

\* The request's route gate holds what the headers of the response said.
UrlGateUpdatedFrom(q2, gates, response) ==
    /\ q2.url \in DOMAIN gates
    /\ ~gates[q2.url].first_update
    /\ gates[q2.url].bucket = response.bucket
    /\ gates[q2.url].remaining <= response.remaining

\* C19: a 401, a 403, a 404, any other 4xx except 429 and any 5xx outside
\* {500, 502, 504} end the request with the typed error of that status after
\* exactly that one transport call, whatever retry_request is: no sleep and
\* no further pass follow.  The route gate has been updated from the
\* response's headers by then, and the global gate, for which such a response
\* carries nothing, is as its update leaves it.
C19_FatalStatusesRaiseAtOnce ==
    /\ [](\A r \in Requests :
            (req[r].status >= 400
             /\ req[r].status \notin {429, 500, 502, 504})
            => Done(req[r]) /\ req[r].outcome.kind = "raise")
    /\ [][\A r \in Requests : \A kind \in KindsFatal :
            RespondWith(r, kind)
            => /\ Surfaced(req[r], req'[r],
                           TypedError(ResponseOf(kind, now).status))
               /\ req'[r].retry_count = req[r].retry_count
               /\ req'[r].sleep = req[r].sleep
               /\ UrlGateUpdatedFrom(req'[r], rl', ResponseOf(kind, now))
               /\ rl'[req[r].glob]
                    = GlobalUpdateHead(rl[req[r].glob],
                                       ResponseOf(kind, now))]_vars

\* A request with retries on ended on a 503 of its second transport call, the
\* other with retries off on a 403 of its first.
C19_Witness ==
    /\ Done(req[1]) /\ req[1].retry_request /\ req[1].retry_count = 1
    /\ req[1].outcome.err = "DiscordServerError"
    /\ req[1].outcome.status = 503 /\ req[1].calls = 2
    /\ Done(req[2]) /\ ~req[2].retry_request
    /\ req[2].outcome.err = "Forbidden" /\ req[2].calls = 1

\* The responses whose status is 500, 502 or 504.
KindsServerError ==
    {kind \in env.kinds : ResponseOf(kind, now).status \in {500, 502, 504}}

----------------------------------------------------------------------------
(* Properties of the OSError handler, in SpecDeep *)

\* C21: a connection reset (errno 54 or 10054) in the transport call of pass
\* k < 4 is retried after a sleep of 1 + 2k seconds; in the fifth pass it
\* propagates to the caller; any other OSError propagates at once.  Either
\* way no gate changes: the permits the failed attempt took stay taken.
C21_ConnectionResetsAreRetried ==
    [][\A r \in Requests : \A errno \in env.errnos :
         TransportFailsWith(r, errno)
         => /\ IF errno \in {54, 10054} /\ req[r].retry_count < 4
               THEN Retried(req[r], req'[r], 1 + 2 * req[r].retry_count)
               ELSE /\ Done(req'[r])
                    /\ req'[r].outcome.kind = "raise"
                    /\ req'[r].outcome.err = "OSError"
            /\ req'[r].calls = req[r].calls
            /\ req'[r].gdec = req[r].gdec
            /\ rl' = rl]_vars

\* A request's fifth transport call was reset like its first four, and the
\* OSError reached the caller.
C21_Witness ==
    /\ Done(req[1]) /\ req[1].outcome.err = "OSError"
    /\ req[1].retry_count = 4 /\ req[1].calls = 5

----------------------------------------------------------------------------
(* Properties of the registry, in Spec *)

\* The object _buckets holds under the name the response of this kind
\* carries (0: none).
Canonical(kind) ==
    IF ResponseOf(kind, now).bucket = None THEN 0
    ELSE buckets[ResponseOf(kind, now).bucket]

\* The response of this kind reaches request r and names a bucket that
\* _buckets holds under another object than the route gate r uses.
NamesForeignBucket(r, kind) ==
    /\ req[r].pc = "transport"
    /\ ~ResponseOf(kind, now).xglobal
    /\ Canonical(kind) # 0
    /\ Canonical(kind) # req[r].url
    /\ RespondWith(r, kind)

\* The route key of r maps to C, which is registered under the name and has
\* been updated from a response; no other route key changed.
RepointedTo(r, name, C) ==
    /\ url_rate_limits'[Key(req[r])] = C
    /\ buckets'[name] = C
    /\ rl'[C].bucket = name /\ ~rl'[C].first_update
    /\ \A k \in Keys \ {Key(req[r])} : url_rate_limits'[k] = url_rate_limits[k]

\* C22 as claimed: when a response for a route key carries a bucket name
\* registered under another object C than the one the key uses (S), the key
\* is re-pointed to C, migrate_to is called on S and the response is applied
\* to C.
C22_RepointAlwaysMigrates ==
    [][\A r \in Requests : \A kind \in env.kinds :
         NamesForeignBucket(r, kind)
         => /\ RepointedTo(r, ResponseOf(kind, now).bucket, Canonical(kind))
            /\ rl'[req[r].url].migrating = ResponseOf(kind, now).bucket]_vars

\* C22 as the code has it: the key is re-pointed to C and the response is
\* applied to C in every such case, so that the key and the key that owned
\* the name share C from then on; migrate_to is called on S when S had no
\* name or this name, and S is left as it was when S is registered under a
\* different name (the IncorrectBucket path).
C22_RepointMigratesUnnamed ==
    [][\A r \in Requests : \A kind \in env.kinds :
         NamesForeignBucket(r, kind)
         => /\ RepointedTo(r, ResponseOf(kind, now).bucket, Canonical(kind))
            /\ IF rl[req[r].url].bucket \in {None, ResponseOf(kind, now).bucket}
               THEN rl'[req[r].url].migrating = ResponseOf(kind, now).bucket
               ELSE rl'[req[r].url] = rl[req[r].url]]_vars

\* Both route keys share one gate, and the gate the second key had used is
\* migrating to the shared one's name.
C22_Witness ==
    /\ url_rate_limits[<<"r1", None>>] # 0
    /\ url_rate_limits[<<"r2", None>>] = url_rate_limits[<<"r1", None>>]
    /\ \E S \in DOMAIN rl :
          /\ rl[S].kind = "route"
          /\ S # url_rate_limits[<<"r1", None>>]
          /\ rl[S].migrating # None
          /\ rl[S].migrating = rl[url_rate_limits[<<"r1", None>>]].bucket

----------------------------------------------------------------------------
(* Properties of the credential partitions, in SpecCreds *)

\* The request took this step itself (another request's step can only
\* resolve the future it waits on).
Acted(r) == req'[r] # req[r] /\ req'[r] # [req[r] EXCEPT !.woken = TRUE]

\* The Authorization value request r goes out with: the entry of the headers
\* it was given, else its auth argument, else the client's default.
SentAuthorization(r) ==
    LET hdr == req[r].given[1]
        auth == req[r].given[2]
    IN  CASE hdr # MISSING -> hdr
          [] auth = MISSING -> env.default_auth
          [] OTHER -> auth

\* C23: every credential, no credential being one of them, has its own
\* global gate: two requests use the same GlobalRateLimit object iff their
\* Authorization values are equal, and a global gate changes only in a step
\* of a request of its credential or when its own reset task fires.
C23_OneGlobalGatePerCredential ==
    /\ [](\A r1, r2 \in Requests :
            (req[r1].pc # "idle" /\ req[r2].pc # "idle")
            => (req[r1].glob = req[r2].glob
                <=> SentAuthorization(r1) = SentAuthorization(r2)))
    /\ [][\A a \in Auths :
            (/\ global_rate_limits[a] # 0
             /\ rl'[global_rate_limits[a]] # rl[global_rate_limits[a]])
            => \/ \E r \in Requests : Acted(r) /\ SentAuthorization(r)' = a
               \/ TimerFire(global_rate_limits[a])]_vars

\* The gate of the default credential was shut by a global 429 while the gate
\* of the requests without credential stayed open with its permit.
C23_Witness ==
    /\ req[1].given = <<MISSING, None>> /\ req[2].given = <<MISSING, MISSING>>
    /\ req[1].pc = "transport" /\ req[2].pc = "sleep" /\ req[2].status = 429
    /\ req[1].glob # req[2].glob
    /\ ~rl[req[2].glob].ready /\ rl[req[2].glob].remaining = 0
    /\ rl[req[1].glob].ready /\ rl[req[1].glob].remaining = 1

----------------------------------------------------------------------------
(* Properties of close(), in SpecClose *)

\* C24: once close() has completed, the shed task is cancelled and no reset
\* task of any route or global gate the client created is still pending.
C24_CloseLeavesNoTask ==
    life.session = "closed"
    => /\ life.shed_task # "running"
       /\ \A i \in DOMAIN rl : ~resetting(rl[i])

----------------------------------------------------------------------------
(* Properties of the DataManager cache *)

\* C25: load() asks the class-level cache before the disk.  An instance made
\* for a file that has a cache entry gets the cached dict itself, whatever the
\* file on disk holds by then; one made for a file without a cache entry gets
\* what the file holds, or the empty default when there is no file.
C25_CacheBeforeDisk ==
    [][\A m \in Managers, f \in DataFiles, a \in BOOLEAN :
         ConstructWith(m, f, a) =>
            IF cache[f] # 0
            THEN /\ managers'[m].data = cache[f]
                 /\ heap'[cache[f]] = heap[cache[f]]
            ELSE heap'[managers'[m].data] =
                   (IF files[f] = NoFile THEN 0 ELSE files[f])]_vars

\* Two instances hold the cached dict of a file whose contents on disk have
\* been changed to something else.
C25_Witness ==
    /\ managers[1].live /\ managers[2].live
    /\ managers[1].auto_save /\ managers[2].auto_save
    /\ managers[1].data = managers[2].data
    /\ cache["f1"] = managers[1].data
    /\ files["f1"] \notin {NoFile, heap[cache["f1"]]}

\* The files that have a cache entry.
Cached(c) == {f \in DataFiles : c[f] # 0}

\* The step is a save() of the file f, or a load() that reads it from disk:
\* the two that insert into the cache and clean it.
Inserts(f) ==
    \/ \E m \in Managers : managers[m].file = f /\ Save(m)
    \/ \E m \in Managers, a \in BOOLEAN :
         cache[f] = 0 /\ files[f] # NoFile /\ ConstructWith(m, f, a)

\* The access times of the entries as the cleaning finds them: the entry of f
\* has just been stamped.
StampsAt(f) == SetStamp(cache_timestamps, f, clock)

\* C26: the cache never holds more than _cache_limit entries.  When a save()
\* or load() drops entries, every entry dropped was accessed no later than
\* every entry kept, and no more are dropped than the limit and the
\* time-to-live ask for; after the cleaning of a save() or of a load() from
\* disk no entry is older than _cache_ttl.
C26_CacheIsBoundedLru ==
    /\ [](Cardinality(Cached(cache)) <= cache_limit)
    /\ [][\A f \in DataFiles : Inserts(f) =>
            LET dropped == (Cached(cache) \cup {f}) \ Cached(cache')
            IN  /\ \A d \in dropped, g \in Cached(cache') :
                     Stamp(StampsAt(f), d) <= Stamp(cache_timestamps', g)
                /\ \A g \in Cached(cache') :
                     clock - Stamp(cache_timestamps', g) <= cache_ttl
                /\ (\E d \in dropped : clock - Stamp(StampsAt(f), d) <= cache_ttl)
                   => Cardinality(Cached(cache')) = cache_limit]_vars

\* The cache is full and a file that was saved, no longer ago than the
\* time-to-live, has lost its entry.
C26_Witness ==
    /\ clock <= cache_ttl
    /\ Cardinality(Cached(cache)) = cache_limit
    /\ \E f \in DataFiles : files[f] # NoFile /\ cache[f] = 0

\* C27: a later instance observes exactly the changes that were saved.
\* Leaving the context manager of an instance with auto_save writes its data
\* to the file, and an instance constructed for a file that exists holds what
\* the file holds, so it has none of the keys an instance without auto_save
\* changed and did not save.
C27_OnlySavedChangesAreObserved ==
    [][/\ \A m \in Managers :
            Exit(m) /\ managers[m].auto_save =>
               files'[managers[m].file] = heap[managers[m].data]
       /\ \A m \in Managers, f \in DataFiles, a \in BOOLEAN :
            ConstructWith(m, f, a) /\ files[f] # NoFile =>
               heap'[managers'[m].data] = files[f]]_vars

----------------------------------------------------------------------------
(* Properties of the first update *)

\* A route gate as RateLimit.__init__ leaves it, but for the permits taken:
\* never updated, unnamed, no reset task, its event set.
FreshGate ==
    /\ gate.kind = "route" /\ gate.first_update /\ gate.bucket = None
    /\ gate.migrating = None /\ ~resetting(gate) /\ gate.ready

\* The response carries the headers limit, remaining > 0, reset_after (longer
\* than the second a new gate assumes) and a bucket name.
FullHeaders(response) ==
    /\ ~response.xglobal /\ response.bucket # None
    /\ response.limit # NoVal /\ response.remaining # NoVal
    /\ response.remaining > 0
    /\ response.reset_after # NoVal /\ response.reset_after + time_offset > 1

\* The update takes the counts and the name and leaves the gate open.
AdoptsCounts(response) ==
    /\ gate'.limit = response.limit
    /\ gate'.remaining = response.remaining
    /\ gate'.bucket = response.bucket
    /\ gate'.ready /\ ~gate'.first_update
    /\ gate'.live = 1

\* C28 as stated: the first update of a fresh route gate with limit L,
\* remaining R > 0, reset_after T and a bucket name sets limit L and remaining
\* R, adopts the name, leaves the gate open and schedules the reset timer T
\* (plus time_offset) seconds ahead, in either reset mode.
C28_FirstUpdateSchedulesResetAfter ==
    [][FreshGate /\ gate' # gate =>
       \A c \in Callers, response \in GateResponses(now) :
         FullHeaders(response) /\ UpdateWith(c, response) =>
            /\ AdoptsCounts(response)
            /\ gate'.task = now + response.reset_after + time_offset]_vars

\* C28, amended: the same, but the timer is T (plus time_offset) ahead only in
\* reset-after mode.  In reset-timestamp mode it ends at the X-RateLimit-Reset
\* time (plus time_offset) when the response has one in the future, and one
\* second ahead otherwise.
C28_FirstUpdateSchedulesByMode ==
    [][FreshGate /\ gate' # gate =>
       \A c \in Callers, response \in GateResponses(now) :
         FullHeaders(response) /\ UpdateWith(c, response) =>
            /\ AdoptsCounts(response)
            /\ gate'.task =
                 IF ~gate.use_ts
                 THEN now + response.reset_after + time_offset
                 ELSE IF response.reset # NoVal
                         /\ response.reset + time_offset > now
                      THEN response.reset + time_offset
                      ELSE now + 1]_vars

\* A gate in reset-after mode after its first update: named, one permit
\* left, open, its only reset task sleeping the two seconds of the header.
C28_Witness ==
    /\ gate.kind = "route" /\ ~gate.use_ts /\ ~gate.first_update
    /\ gate.bucket # None /\ gate.limit = MaxLimit /\ gate.remaining = 1
    /\ gate.ready /\ gate.tracked = 2 + time_offset
    /\ gate.task = now + 2 + time_offset
    /\ gate.live = 1 /\ ~gate.superseded

----------------------------------------------------------------------------
(* Properties of acquire() at the last permit *)

\* Caller c gets through acquire() in this step.
Acquires(c) ==
    /\ callers[c].pc # "acquired" /\ callers'[c].pc = "acquired"
    /\ Acquire(c) \/ Resume(c)

\* C29: an acquire() that takes the last permit of a gate that is not
\* migrating leaves it locked and with a reset task that is pending.
C29_LastPermitLocksAndSchedules ==
    [][\A c \in Callers :
         Acquires(c) /\ gate'.remaining = 0 /\ gate'.migrating = None =>
            locked(gate') /\ resetting(gate')]_vars

----------------------------------------------------------------------------
(* Properties of the sweep *)

\* The gates a sweep is to evict: named, their reset time further back than
\* the threshold, no reset task running.
Stale(i) ==
    /\ rl[i].kind = "route" /\ rl[i].bucket # None
    /\ rl[i].reset # NoVal /\ rl[i].reset < now - ratelimit_shed_threshold
    /\ ~resetting(rl[i])

\* C30: after a sweep no gate that was stale is reachable through the
\* registry, neither under a route key nor under its bucket name.
C30_SweepEvictsStaleGates ==
    [][Shed =>
         \A i \in DOMAIN rl :
            Stale(i) => /\ \A k \in Keys : url_rate_limits'[k] # i
                        /\ \A n \in BucketNames : buckets'[n] # i]_vars

----------------------------------------------------------------------------
(* Properties of the two updates of a response *)

\* What update() can change of a gate is the same in a and b.
SameGate(a, b) ==
    /\ a.bucket = b.bucket /\ a.limit = b.limit /\ a.remaining = b.remaining
    /\ a.reset = b.reset /\ a.reset_after = b.reset_after
    /\ a.tracked = b.tracked /\ a.task = b.task /\ a.ready = b.ready

\* C31: a response goes to one gate only.  One that GlobalRateLimit.update
\* takes as global (X-RateLimit-Global: true or X-RateLimit-Scope: global)
\* leaves the route gate of the request as it was, and one that it does not
\* take as global leaves the global gate as it was.
C31_ResponseUpdatesOneGate ==
    [][\A r \in Requests :
         /\ \A kind \in env.kinds :
              req[r].pc = "transport" /\ RespondWith(r, kind) =>
                 IF IsGlobalScoped(ResponseOf(kind, now))
                 THEN SameGate(rl'[req[r].url], rl[req[r].url])
                 ELSE SameGate(rl'[req[r].glob], rl[req[r].glob])
         /\ req[r].pc = "global_json" /\ GlobalJson(r) =>
              SameGate(rl'[req[r].url], rl[req[r].url])]_vars

----------------------------------------------------------------------------
(* Properties of a bucket name *)

----------------------------------------------------------------------------
(* Properties of the permit count *)

\* C33: the remaining count of a gate, route or global, is never negative,
\* whatever the order of acquires, updates, timer firings, migrations and
\* global 429s: an acquire() that gets through finds a permit and takes one.
C33_RemainingNeverNegative ==
    /\ [](gate.remaining >= 0)
    /\ [][\A c \in Callers :
            Acquires(c) => /\ gate.remaining > 0
                           /\ gate'.remaining = gate.remaining - 1]_vars

\* A caller is suspended in acquire() on a gate that has no permit left and
\* whose event is clear, while another holds the last permit.
C33_Witness ==
    /\ gate.remaining = 0 /\ ~gate.ready
    /\ \E c, d \in Callers :
          callers[c].pc = "waiting" /\ callers[d].pc = "acquired"

----------------------------------------------------------------------------
(* Properties of the wake-up *)

----------------------------------------------------------------------------
(* Properties of the name map *)

\* C35: an entry of _buckets, once written, is never overwritten or removed,
\* and the gate it holds carries that name and never migrates.  Every gate
\* that migrates names a gate that is in _buckets, so the redirect of
\* request() finds its target at once and no request ends in the ValueError
\* of a migration target that was not found.
C35_MigrationTargetIsRegistered ==
    /\ [](/\ \A n \in BucketNames :
              buckets[n] # 0 => /\ rl[buckets[n]].bucket = n
                                /\ rl[buckets[n]].migrating = None
          /\ \A i \in DOMAIN rl :
              rl[i].migrating # None => buckets[rl[i].migrating] # 0
          /\ \A r \in Requests : req[r].outcome.err # "ValueError")
    /\ [][\A n \in BucketNames :
            buckets[n] # 0 => buckets'[n] = buckets[n]]_vars

\* The gate first made for a route migrates to the gate registered under the
\* name, the only other route gate there is, and a request that held the
\* migrating gate has been redirected once and now holds the registered one.
C35_Witness ==
    /\ Len(rl) = 3 /\ rl[2].migrating # None
    /\ buckets[rl[2].migrating] = 3
    /\ \E r \in Requests :
          req[r].redirs = 1 /\ req[r].url = 3 /\ req[r].pc # "idle"

\* C36: no entry of _url_rate_limits points to a gate that is migrating.  In
\* the step in which a gate starts to migrate, the route key of the request
\* whose response caused it is re-pointed to the gate registered under the
\* name.
C36_NoRouteKeyOnMigratingGate ==
    /\ [](\A k \in Keys :
            url_rate_limits[k] # 0 => rl[url_rate_limits[k]].migrating = None)
    /\ [][\A i \in DOMAIN rl :
            rl[i].migrating = None /\ rl'[i].migrating # None =>
               \E r \in Requests :
                  /\ req[r].url = i
                  /\ url_rate_limits'[Key(req[r])] = buckets[rl'[i].migrating]]_vars

\* Both route keys point to the one gate registered under the bucket name,
\* and the gate first made for one of the routes is migrating.
C36_Witness ==
    /\ \E i \in DOMAIN rl : rl[i].migrating # None
    /\ \E j \in DOMAIN rl :
          /\ rl[j].bucket \in BucketNames /\ buckets[rl[j].bucket] = j
          /\ \A route \in Routes : url_rate_limits[<<route, None>>] = j

----------------------------------------------------------------------------
(* Properties of the route gates of two credentials *)

\* C37: the route gates are partitioned by credential.  No gate is under the
\* route keys of two credentials, and the gate a request holds (acquires,
\* updates, or was redirected to) is under no route key of a credential other
\* than its own.
C37_RouteGatesPerCredential ==
    /\ \A k1, k2 \in Keys :
          k1[2] # k2[2] /\ url_rate_limits[k1] # 0 =>
             url_rate_limits[k1] # url_rate_limits[k2]
    /\ \A r \in Requests, k \in Keys :
          req[r].pc # "idle" /\ req[r].url # 0 /\ k[2] # req[r].auth =>
             url_rate_limits[k] # req[r].url

----------------------------------------------------------------------------
(* Properties of the global limit *)

\* C38: between two refills of a global gate by its reset task at most
\* max_global_requests calls of acquire() get through.  The gate holds
\* between 0 and max_global_requests permits, every acquire() that gets
\* through takes one, and only the reset task at the end of its sleep adds
\* permits.
C38_GlobalLimitPerWindow ==
    /\ [](gate.kind = "global" =>
            gate.remaining \in 0..max_global_requests)
    /\ [][gate.kind = "global" =>
            /\ \A c \in Callers :
                  Acquires(c) => gate'.remaining = gate.remaining - 1
            /\ gate'.remaining > gate.remaining =>
                  /\ GateTimerDue
                  /\ gate'.remaining = max_global_requests
                  /\ callers' = [c \in Callers |->
                        [callers[c] EXCEPT !.woken =
                           callers[c].woken
                           \/ (callers[c].pc = "waiting" /\ ~gate.ready)]]]_vars

\* The global gate has given out all its permits since the last refill: one
\* caller holds one, another is suspended until the reset task, which is
\* pending, fires.
C38_Witness ==
    /\ gate.kind = "global" /\ gate.remaining = 0
    /\ ~gate.ready /\ resetting(gate)
    /\ \E c, d \in Callers :
          callers[c].pc = "waiting" /\ ~callers[c].woken
          /\ callers[d].pc = "acquired"

----------------------------------------------------------------------------
(* Properties of the sweep and the requests in flight *)

\* C39: the sweep removes no route gate that a request is using: one it has
\* acquired and awaits the response or the end of update() on, or one it is
\* suspended on.
C39_SweepSparesGatesInUse ==
    \A k \in Keys :
       swept[k] # 0 /\ url_rate_limits[k] = 0 =>
          \A r \in Requests :
             req[r].pc \in {"transport", "global_json", "wait_url"} =>
                req[r].url # swept[k]

----------------------------------------------------------------------------
(* Properties of delete() *)

\* C40: a DataManager constructed for a file that delete() has removed starts
\* from its default data, the empty dict, and not from what the file held.
C40_DeletedFileStartsFromDefault ==
    [][\A m \in Managers, f \in DataFiles, a \in BOOLEAN :
         ConstructWith(m, f, a) /\ files[f] = NoFile =>
            heap'[managers'[m].data] = 0]_vars

=============================================================================
